---- MODULE Spec2Model ----
(***************************************************************************)
(* A model of nptdms/daqmx.py: the DAQmx raw data index parser             *)
(* (DaqmxSegmentObject.read_raw_data_index, DaqMxMetadata, the two scaler  *)
(* classes), the chunk size resolution (DaqmxSegment._get_chunk_size) and  *)
(* the chunk decoder (DaqmxSegment._read_data_chunk).                      *)
(*                                                                         *)
(* Byte streams are sequences of numbers 0..255 with a 0-based read        *)
(* position.  Data types and exceptions are named by their class name,     *)
(* "None" for None.  The model checker's integers are 32 bits wide, so the *)
(* streams enumerated below carry words below 2^31.                        *)
(***************************************************************************)
EXTENDS Integers, Sequences, FiniteSets, TLC

VARIABLES
    \* DaqmxSegment._read_data_chunk
    data_objects,      \* the channel objects passed in
    endianness,        \* self.endianness: "<" or ">"
    file,              \* the bytes of the stream
    pos,               \* the stream position (bytes consumed so far)
    pc,                \* where the call stands
    raw_data_widths,   \* local of the same name
    chunk_size,        \* local of the same name
    raw_buffer_index,  \* loop variable of the outer for
    combined_data,     \* rows read for the current raw buffer
    work,              \* index into the (object, scaler) pairs of this buffer
    scaler_data,       \* defaultdict(dict): path -> scale_id -> values
    err,               \* the exception raised, "None" when none
    reads,             \* history: one record per completed buffer read
    last,              \* history: the scaler decoded by the latest step
    \* DaqmxSegmentObject.read_raw_data_index
    hdr,               \* raw_data_index_header
    f,                 \* the bytes of the metadata stream
    fpos,              \* its position
    fend,              \* its byte order
    obj,               \* the channel object (self)
    old,               \* the channel object as it was before the call
    md,                \* the DaqMxMetadata under construction
    todo,              \* scaler records / widths still to read
    ppc,               \* where the call stands
    perr,              \* the exception raised
    records,           \* history: one record per scaler record parsed
    \* DaqmxSegment._get_chunk_size
    ordered_objects, cpc, chunk_result,
    \* DigitalLineScaler.byte_offset / postprocess_data
    bit_scaler, bit_value, bpc, bit_byte_offset, bit_result

decodeVars == <<data_objects, endianness, file, pos, pc, raw_data_widths,
                chunk_size, raw_buffer_index, combined_data, work,
                scaler_data, err, reads, last>>
parseVars == <<hdr, f, fpos, fend, obj, old, md, todo, ppc, perr, records>>
chunkVars == <<ordered_objects, cpc, chunk_result>>
bitVars == <<bit_scaler, bit_value, bpc, bit_byte_offset, bit_result>>
vars == <<decodeVars, parseVars, chunkVars, bitVars>>

-----------------------------------------------------------------------------
(* Bounds of the model. *)
MaxRows == 2        \* number_values of a decoded chunk
MaxBuffers == 2     \* raw buffers (acquisition cards) per segment
MaxScalers == 2     \* scalers over the channel objects of one decode
MaxBitOffset == 40  \* raw_bit_offset of the digital line scaler under test
MaxChunkObjects == 4 \* channel objects scanned by _get_chunk_size
MaxParseScalers == 2 \* scaler records written to a metadata stream

(* self.daqmx_metadata = None, and the history variable `last` before any *)
(* scaler has been decoded.                                               *)
NoMetadata == [none |-> TRUE]
NoScaler == [none |-> TRUE]

-----------------------------------------------------------------------------
(* Constants of daqmx.py. *)
FORMAT_CHANGING_SCALER == \h1269
DIGITAL_LINE_SCALER == \h126A

DAQMX_TYPES ==
    (0 :> "Uint8") @@ (1 :> "Int8") @@ (2 :> "Uint16") @@
    (3 :> "Int16") @@ (4 :> "Uint32") @@ (5 :> "Int32")

_scaler_classes ==
    (FORMAT_CHANGING_SCALER :> "DaqMxScaler") @@
    (DIGITAL_LINE_SCALER :> "DigitalLineScaler")

(* nptdms.types: the byte size and signedness of the scaler data types. *)
TypeSize(t) ==
    CASE t \in {"Uint8", "Int8"} -> 1
      [] t \in {"Uint16", "Int16"} -> 2
      [] t \in {"Uint32", "Int32"} -> 4

TypeSigned(t) == t \in {"Int8", "Int16", "Int32"}

-----------------------------------------------------------------------------
(* Arithmetic helpers. *)
RECURSIVE Pow2(_)
Pow2(n) == IF n = 0 THEN 1 ELSE 2 * Pow2(n - 1)

RECURSIVE SumSeq(_)
SumSeq(s) == IF s = <<>> THEN 0 ELSE Head(s) + SumSeq(Tail(s))

(* Bitwise and of two naturals, bit by bit. *)
RECURSIVE NatAnd(_, _)
NatAnd(a, b) ==
    IF a = 0 \/ b = 0 THEN 0
    ELSE (a % 2) * (b % 2) + 2 * NatAnd(a \div 2, b \div 2)

(* np.bitwise_and of an array element with a small positive mask: a      *)
(* negative element is taken in two's complement.                        *)
bitwise_and(v, mask) ==
    IF v >= 0 THEN NatAnd(v, mask) ELSE NatAnd(v + Pow2(16), mask)

right_shift(v, n) == v \div Pow2(n)

-----------------------------------------------------------------------------
(* The scaler classes. *)

(* DaqMxScaler.byte_offset and DigitalLineScaler.byte_offset *)
byte_offset(scaler) ==
    IF scaler.kind = "DaqMxScaler"
    THEN scaler.raw_byte_offset
    ELSE scaler.raw_bit_offset \div 8

(* Mutant: the masked value is not shifted down. *)
DigitalPostprocess_NoShift(scaler, v) ==
    bitwise_and(v, Pow2(scaler.raw_bit_offset % 8))

(* DigitalLineScaler.postprocess_data on one element *)
DigitalPostprocess(scaler, v) ==
    LET bit_offset == scaler.raw_bit_offset % 8
        bitmask == Pow2(bit_offset)
    IN  right_shift(bitwise_and(v, bitmask), bit_offset)

(* DaqMxScaler.postprocess_data and DigitalLineScaler.postprocess_data *)
postprocess_data(scaler, data) ==
    IF scaler.kind = "DaqMxScaler"
    THEN data
    ELSE [n \in 1..Len(data) |-> DigitalPostprocess(scaler, data[n])]

-----------------------------------------------------------------------------
(* The array operations of _read_data_chunk. *)

(* read_interleaved_segment_bytes: bytes_per_row * num_values bytes taken *)
(* from the stream at position p, seen as num_values rows of              *)
(* bytes_per_row columns (row-major).                                     *)
read_interleaved_segment_bytes(bytes, p, bytes_per_row, num_values) ==
    [data |-> SubSeq(bytes, p + 1, p + bytes_per_row * num_values),
     rows |-> num_values,
     width |-> bytes_per_row]

(* range(byte_offset, byte_offset + scaler_size) *)
ByteColumns(offset, size) == [c \in 1..size |-> offset + c - 1]

(* Mutant: only the first column is checked against the row width. *)
ColumnsInRange_FirstOnly(width, byte_columns) == byte_columns[1] < width

(* The index check of combined_data[:, byte_columns]: IndexError unless  *)
(* every column is below the row width.                                  *)
ColumnsInRange(width, byte_columns) ==
    \A c \in 1..Len(byte_columns) : byte_columns[c] < width

(* Element [r, col] of the array (r from 1, col from 0) in its row-major *)
(* buffer.  An element past the buffer reads as 0; no such element is    *)
(* read when ColumnsInRange holds.                                       *)
Element(array, r, col) ==
    LET n == (r - 1) * array.width + col + 1
    IN  IF n <= Len(array.data) THEN array.data[n] ELSE 0

(* combined_data[:, byte_columns]: one row per row of the array *)
SelectColumns(array, byte_columns) ==
    [r \in 1..array.rows |->
        [c \in 1..Len(byte_columns) |-> Element(array, r, byte_columns[c])]]

(* Mutant: the flattening goes column by column (Fortran order). *)
RECURSIVE ravel_ColumnMajor(_)
ravel_ColumnMajor(rows) ==
    IF rows = <<>> \/ rows[1] = <<>> THEN <<>>
    ELSE [r \in 1..Len(rows) |-> rows[r][1]]
            \o ravel_ColumnMajor([r \in 1..Len(rows) |-> Tail(rows[r])])

(* ndarray.ravel(): the rows one after another *)
RECURSIVE ravel(_)
ravel(rows) == IF rows = <<>> THEN <<>> ELSE Head(rows) \o ravel(Tail(rows))

(* One element of dtype t in byte order e from its bytes in memory order. *)
RECURSIVE BigEndianValue(_)
BigEndianValue(bytes) ==
    IF bytes = <<>> THEN 0
    ELSE bytes[Len(bytes)] + 256 * BigEndianValue(SubSeq(bytes, 1, Len(bytes) - 1))

RECURSIVE Reverse(_)
Reverse(s) == IF s = <<>> THEN <<>> ELSE Reverse(Tail(s)) \o <<Head(s)>>

(* Mutant: the bytes are always taken in little-endian order. *)
ElementValue_LittleEndian(bytes, t, e) ==
    LET u == BigEndianValue(Reverse(bytes))
        half == Pow2(8 * Len(bytes) - 1)
    IN  IF TypeSigned(t) /\ u >= half THEN u - 2 * half ELSE u

ElementValue(bytes, t, e) ==
    LET u == IF e = ">" THEN BigEndianValue(bytes)
             ELSE BigEndianValue(Reverse(bytes))
        half == Pow2(8 * Len(bytes) - 1)
    IN  IF TypeSigned(t) /\ u >= half THEN u - 2 * half ELSE u

(* this_scaler_data.dtype = scaler.data_type.nptype.newbyteorder(e):     *)
(* the flat byte vector seen as elements of TypeSize(t) bytes each.      *)
SetDtype(flat, t, e) ==
    [n \in 1..(Len(flat) \div TypeSize(t)) |->
        ElementValue(SubSeq(flat, (n - 1) * TypeSize(t) + 1, n * TypeSize(t)), t, e)]

-----------------------------------------------------------------------------
(* Maps for defaultdict(dict). *)
EmptyMap == [x \in {} |-> 0]

Put(map, key, val) ==
    [x \in (DOMAIN map) \cup {key} |-> IF x = key THEN val ELSE map[x]]

(* Mutant: the channel's map is made anew for every scaler. *)
Inner_Fresh(map, path) == EmptyMap

(* scaler_data[path], made empty on first use *)
Inner(map, path) == IF path \in DOMAIN map THEN map[path] ELSE EmptyMap

-----------------------------------------------------------------------------
(* Inputs of _read_data_chunk. *)

(* The stream: six bytes with varied high bits, repeated with a shift. *)
Pattern == <<\h34, \h12, \h85, \h78, \h56, \hC3>>

StreamByte(n) == (Pattern[((n - 1) % 6) + 1] + 17 * ((n - 1) \div 6)) % 256

Widths == {2, 3}

(* One byte short of the largest chunk, so that a read can hit the end. *)
StreamLen == MaxRows * MaxBuffers * 3 - 1

Stream == [n \in 1..StreamLen |-> StreamByte(n)]

(* Where each byte of the stream sits: the same array operations applied *)
(* to this sequence tell which stream bytes a scaler's column is made of. *)
StreamPositions == [n \in 1..StreamLen |-> n]

WidthLists == UNION {[1..n -> Widths] : n \in {0, 1, MaxBuffers}}

(* raw_buffer_index of a scaler: the first buffer, the last one, and one  *)
(* past the last.                                                         *)
ScalerBuffers == {0, MaxBuffers - 1, MaxBuffers}

(* <<type code, raw_byte_offset>> of the format changing scalers and      *)
(* <<type code, raw_bit_offset>> of the digital line scalers.             *)
FormatChangingLayouts == {<<1, 2>>, <<2, 0>>, <<3, 1>>}
DigitalLineLayouts == {<<0, 18>>, <<2, 9>>, <<0, 24>>}

Paths == <<"/'g'/'a'", "/'g'/'b'">>

FormatChangingScaler(layout, buffer, id) ==
    [kind |-> "DaqMxScaler", scale_id |-> id,
     data_type |-> DAQMX_TYPES[layout[1]], raw_buffer_index |-> buffer,
     raw_byte_offset |-> layout[2], sample_format_bitmap |-> 0]

DigitalLineScaler(layout, buffer, id) ==
    [kind |-> "DigitalLineScaler", scale_id |-> id,
     data_type |-> DAQMX_TYPES[layout[1]], raw_buffer_index |-> buffer,
     raw_bit_offset |-> layout[2], sample_format_bitmap |-> 0]

MakeScaler(header, layout, buffer, id) ==
    IF header = FORMAT_CHANGING_SCALER
    THEN FormatChangingScaler(layout, buffer, id)
    ELSE DigitalLineScaler(layout, buffer, id)

Layouts(header) ==
    IF header = FORMAT_CHANGING_SCALER
    THEN FormatChangingLayouts ELSE DigitalLineLayouts

(* The scalers of one channel: those of `picks` owned by channel c, with  *)
(* scale ids 7, 9, ... or, with `same`, the id 7 throughout.              *)
RECURSIVE ScalersOf(_, _, _, _, _)
ScalersOf(header, picks, owner, c, same) ==
    IF picks = <<>> THEN <<>>
    ELSE LET n == Len(picks)
             rest == ScalersOf(header, SubSeq(picks, 1, n - 1),
                               SubSeq(owner, 1, n - 1), c, same)
         IN  IF owner[n] # c THEN rest
             ELSE Append(rest,
                    MakeScaler(header, picks[n][1], picks[n][2],
                               IF same THEN 7 ELSE 7 + 2 * Len(rest)))

(* A channel object as read_raw_data_index leaves it. *)
ChannelObject(c, type, rows, widths, scalers, header) ==
    [path |-> Paths[c], data_type |-> type, number_values |-> rows,
     daqmx_metadata |->
        [scaler_type |-> header, chunk_size |-> rows,
         raw_data_widths |-> widths, scalers |-> scalers]]

-----------------------------------------------------------------------------
(* DaqmxSegment._read_data_chunk *)

(* Mutant: only the first object's data type is looked at. *)
all_daqmx_FirstOnly(objects) ==
    objects = <<>> \/ objects[1].data_type = "DaqMxRawData"

all_daqmx(objects) ==
    \A n \in 1..Len(objects) : objects[n].data_type = "DaqMxRawData"

(* The (object, scaler) pairs in the order of the two inner loops. *)
RECURSIVE PairsFrom(_, _, _)
PairsFrom(objects, i, j) ==
    IF i > Len(objects) THEN <<>>
    ELSE IF j > Len(objects[i].daqmx_metadata.scalers)
         THEN PairsFrom(objects, i + 1, 1)
         ELSE <<<<i, j>>>> \o PairsFrom(objects, i, j + 1)

ScalerAt(objects, p) == objects[p[1]].daqmx_metadata.scalers[p[2]]

(* Mutant: the scalers are not filtered by their raw buffer index. *)
ScalersForRawBufferIndex_All(objects, b) == PairsFrom(objects, 1, 1)

(* scalers_for_raw_buffer_index, over all objects *)
ScalersForRawBufferIndex(objects, b) ==
    SelectSeq(PairsFrom(objects, 1, 1),
              LAMBDA p : ScalerAt(objects, p).raw_buffer_index = b)

DecodeIdle ==
    /\ data_objects = <<>> /\ endianness = "<" /\ file = <<>> /\ pos = 0
    /\ pc = "idle" /\ raw_data_widths = <<>> /\ chunk_size = 0
    /\ raw_buffer_index = 0 /\ combined_data = <<>> /\ work = 0
    /\ scaler_data = EmptyMap /\ err = "None" /\ reads = <<>>
    /\ last = NoScaler

DecodeStart(objects, e) ==
    /\ data_objects = objects /\ endianness = e /\ file = Stream /\ pos = 0
    /\ pc = "start" /\ raw_data_widths = <<>> /\ chunk_size = 0
    /\ raw_buffer_index = 0 /\ combined_data = <<>> /\ work = 0
    /\ scaler_data = EmptyMap /\ err = "None" /\ reads = <<>>
    /\ last = NoScaler

(* Lines 42-52: the check of the data types, then the locals. *)
CheckAllDaqmx ==
    /\ UNCHANGED <<parseVars, chunkVars, bitVars>>
    /\ pc = "start"
    /\ IF ~all_daqmx(data_objects)
       THEN /\ pc' = "raised"
            /\ err' = "MixedDataTypes"
            /\ UNCHANGED <<raw_data_widths, chunk_size>>
       ELSE IF data_objects = <<>>
       THEN /\ pc' = "raised"
            /\ err' = "IndexError"
            /\ UNCHANGED <<raw_data_widths, chunk_size>>
       ELSE /\ pc' = "loop"
            /\ err' = err
            /\ raw_data_widths' = data_objects[1].daqmx_metadata.raw_data_widths
            /\ chunk_size' = data_objects[1].number_values
    /\ UNCHANGED <<data_objects, endianness, file, pos, raw_buffer_index,
                   combined_data, work, scaler_data, reads, last>>

(* Lines 56-59: the next raw buffer is read from the stream. *)
ReadBuffer ==
    /\ UNCHANGED <<parseVars, chunkVars, bitVars>>
    /\ pc = "loop"
    /\ raw_buffer_index < Len(raw_data_widths)
    /\ LET raw_data_width == raw_data_widths[raw_buffer_index + 1]
           count == raw_data_width * chunk_size
       IN  IF pos + count > Len(file)
           THEN /\ pc' = "raised"
                /\ err' = "UnexpectedEndOfData"
                /\ pos' = Len(file)
                /\ UNCHANGED <<combined_data, work, raw_buffer_index, reads>>
           ELSE /\ combined_data' = read_interleaved_segment_bytes(
                                        file, pos, raw_data_width, chunk_size)
                /\ pos' = pos + count
                /\ reads' = Append(reads, [buffer |-> raw_buffer_index,
                                           start |-> pos, count |-> count])
                /\ err' = err
                /\ IF ScalersForRawBufferIndex(data_objects, raw_buffer_index) = <<>>
                   THEN /\ pc' = "loop"
                        /\ raw_buffer_index' = raw_buffer_index + 1
                        /\ work' = 0
                   ELSE /\ pc' = "scalers"
                        /\ raw_buffer_index' = raw_buffer_index
                        /\ work' = 1
    /\ UNCHANGED <<data_objects, endianness, file, raw_data_widths, chunk_size,
                   scaler_data, last>>

(* Lines 63-82: the next scaler sourced from the current raw buffer. *)
DecodeScaler ==
    /\ UNCHANGED <<parseVars, chunkVars, bitVars>>
    /\ pc = "scalers"
    /\ LET pairs == ScalersForRawBufferIndex(data_objects, raw_buffer_index)
           p == pairs[work]
           o == data_objects[p[1]]
           scaler == ScalerAt(data_objects, p)
           scaler_size == TypeSize(scaler.data_type)
           byte_columns == ByteColumns(byte_offset(scaler), scaler_size)
           this_scaler_data ==
               SetDtype(ravel(SelectColumns(combined_data, byte_columns)),
                        scaler.data_type, endianness)
           processed_data == postprocess_data(scaler, this_scaler_data)
           positions == [combined_data EXCEPT !.data =
                            SubSeq(StreamPositions, reads[Len(reads)].start + 1,
                                   reads[Len(reads)].start + reads[Len(reads)].count)]
       IN  IF ~ColumnsInRange(combined_data.width, byte_columns)
           THEN /\ pc' = "raised"
                /\ err' = "IndexError"
                /\ UNCHANGED <<scaler_data, work, raw_buffer_index>>
                /\ last' = [object |-> p[1], scaler |-> p[2],
                            buffer |-> raw_buffer_index, stored |-> FALSE,
                            source |-> <<>>, bytes |-> <<>>, typed |-> <<>>]
           ELSE /\ scaler_data' =
                       Put(scaler_data, o.path,
                           Put(Inner(scaler_data, o.path), scaler.scale_id,
                               processed_data))
                /\ last' = [object |-> p[1], scaler |-> p[2],
                            buffer |-> raw_buffer_index, stored |-> TRUE,
                            source |-> ravel(SelectColumns(positions, byte_columns)),
                            bytes |-> ravel(SelectColumns(combined_data, byte_columns)),
                            typed |-> this_scaler_data]
                /\ err' = err
                /\ IF work = Len(pairs)
                   THEN /\ pc' = "loop"
                        /\ raw_buffer_index' = raw_buffer_index + 1
                        /\ work' = 0
                   ELSE /\ pc' = "scalers"
                        /\ raw_buffer_index' = raw_buffer_index
                        /\ work' = work + 1
    /\ UNCHANGED <<data_objects, endianness, file, pos, raw_data_widths,
                   chunk_size, combined_data, reads>>

(* Line 84: every raw buffer has been read. *)
ReturnChunk ==
    /\ UNCHANGED <<parseVars, chunkVars, bitVars>>
    /\ pc = "loop"
    /\ raw_buffer_index = Len(raw_data_widths)
    /\ pc' = "returned"
    /\ UNCHANGED <<data_objects, endianness, file, pos, raw_data_widths,
                   chunk_size, raw_buffer_index, combined_data, work,
                   scaler_data, err, reads, last>>

-----------------------------------------------------------------------------
(* The variables of the operations a specification does not run. *)
ParseIdle ==
    /\ hdr = 0 /\ f = <<>> /\ fpos = 0 /\ fend = "<" /\ obj = NoMetadata
    /\ old = NoMetadata /\ md = NoMetadata /\ todo = 0 /\ ppc = "idle"
    /\ perr = "None" /\ records = <<>>

ChunkIdle == ordered_objects = <<>> /\ cpc = "idle" /\ chunk_result = 0

BitsIdle ==
    /\ bit_scaler = NoScaler /\ bit_value = <<>> /\ bpc = "idle"
    /\ bit_byte_offset = 0 /\ bit_result = <<>>

-----------------------------------------------------------------------------
(* The calls of _read_data_chunk that are checked: up to two channels and *)
(* up to MaxScalers scalers (the last one is the second channel's when    *)
(* there is one), both byte orders, chunks of MaxRows rows.  An empty     *)
(* chunk and a list with a channel that is not DAQmx raw data come with   *)
(* at most one scaler.                                                    *)
DataTypes == {"DaqMxRawData", "Int32"}

DecodeObjects(header, rows, rows2, widths, picks, owner, same, types) ==
    [c \in 1..Len(types) |->
        ChannelObject(c, types[c], IF c = 1 THEN rows ELSE rows2, widths,
                      ScalersOf(header, picks, owner, c, same), header)]

DecodeInit ==
    \E header \in {FORMAT_CHANGING_SCALER, DIGITAL_LINE_SCALER},
       e \in {"<", ">"}, rows \in {0, MaxRows}, widths \in WidthLists,
       nobj \in 0..2, n \in 0..MaxScalers :
    \E picks \in [1..n -> Layouts(header) \X ScalerBuffers],
       split \in BOOLEAN, same \in BOOLEAN,
       rows2 \in {rows, rows + 1}, types \in [1..nobj -> DataTypes] :
      LET owner == [a \in 1..n |-> IF split /\ a = n THEN 2 ELSE 1] IN
        /\ nobj = 0 => n = 0
        /\ split <=> nobj = 2 /\ n >= 1
        /\ same => ~split /\ n >= 2
        /\ rows2 # rows => nobj = 2
        /\ rows = 0 => n <= 1
        /\ (\E c \in 1..nobj : types[c] # "DaqMxRawData")
              => n <= 1 /\ rows2 = rows
        /\ DecodeStart(DecodeObjects(header, rows, rows2, widths, picks,
                                     owner, same, types), e)
        /\ ParseIdle /\ ChunkIdle /\ BitsIdle

DecodeNext ==
    \/ CheckAllDaqmx
    \/ ReadBuffer
    \/ DecodeScaler
    \/ ReturnChunk

SpecDecode == DecodeInit /\ [][DecodeNext]_vars

-----------------------------------------------------------------------------
(* Properties of _read_data_chunk. *)

Decoded == last # NoScaler

(* The scaler the latest decoding step worked on. *)
LastScaler == data_objects[last.object].daqmx_metadata.scalers[last.scaler]

(* Where raw buffer b starts in the chunk: the buffers before it hold     *)
(* chunk_size rows of their width each.                                   *)
BufferStart(b) == chunk_size * SumSeq(SubSeq(raw_data_widths, 1, b))

(* byte_offset() plus the size of the data type exceeds the width of the  *)
(* raw buffer the scaler sources from.                                    *)
ExceedsWidth(scaler) ==
    byte_offset(scaler) + TypeSize(scaler.data_type)
        > raw_data_widths[scaler.raw_buffer_index + 1]

AllScalerPairs == PairsFrom(data_objects, 1, 1)

(* C1: a scaler whose byte_offset() plus type size exceeds the declared   *)
(* width of its raw buffer makes the decoding fail: the step that reaches *)
(* it raises and stores nothing for it, every stored column is made of    *)
(* bytes inside the rows of its buffer, and no result is returned while   *)
(* such a scaler sources from one of the buffers.                         *)
C1_ExceedingOffsetFails ==
    /\ (Decoded /\ ExceedsWidth(LastScaler))
          => (pc = "raised" /\ err = "IndexError" /\ ~last.stored)
    /\ (Decoded /\ last.stored) =>
          \A n \in 1..Len(last.source) :
              LET rel == last.source[n] - 1 - BufferStart(last.buffer)
                  width == raw_data_widths[last.buffer + 1]
              IN  /\ rel >= 0 /\ rel < chunk_size * width
                  /\ rel % width >= byte_offset(LastScaler)
                  /\ rel % width < byte_offset(LastScaler)
                                      + TypeSize(LastScaler.data_type)
    /\ pc = "returned" =>
          \A n \in 1..Len(AllScalerPairs) :
              LET scaler == ScalerAt(data_objects, AllScalerPairs[n])
              IN  scaler.raw_buffer_index < Len(raw_data_widths)
                      => ~ExceedsWidth(scaler)

C1_Witness ==
    /\ Decoded /\ ExceedsWidth(LastScaler)
    /\ pc = "raised"
    /\ chunk_size = MaxRows
    /\ scaler_data # EmptyMap

SomeNotDaqmx ==
    \E n \in 1..Len(data_objects) :
        data_objects[n].data_type # "DaqMxRawData"

(* C2: a list with an object that is not DAQmx raw data fails with the    *)
(* mixed data types error and nothing is read from the stream, wherever   *)
(* the object stands in the list.                                         *)
C2_MixedFailsBeforeRead ==
    SomeNotDaqmx =>
        /\ pc = "start" \/ (pc = "raised" /\ err = "MixedDataTypes")
        /\ pos = 0
        /\ reads = <<>>

C2_Witness ==
    /\ pc = "raised" /\ err = "MixedDataTypes"
    /\ Len(data_objects) = 2
    /\ data_objects[1].data_type = "DaqMxRawData"
    /\ data_objects[2].data_type # "DaqMxRawData"
    /\ data_objects[1].daqmx_metadata.raw_data_widths # <<>>
    /\ data_objects[1].number_values > 0

(* The stream byte (1-based index) at column col of row r of raw buffer b. *)
RowByteIndex(b, r, col) ==
    BufferStart(b) + r * raw_data_widths[b + 1] + col + 1

(* C3: the bytes from which the column of a format changing scaler with   *)
(* byte offset o and type width w in a buffer of width W >= o + w is      *)
(* built are, for rows 0..chunk_size-1 in row order, the bytes at columns *)
(* [o, o + w) of each row, whatever the other scalers of the call are.    *)
C3_ColumnBytes ==
    (Decoded /\ last.stored /\ LastScaler.kind = "DaqMxScaler") =>
        LET o == LastScaler.raw_byte_offset
            w == TypeSize(LastScaler.data_type)
        IN  /\ o + w <= raw_data_widths[last.buffer + 1]
            /\ Len(last.bytes) = chunk_size * w
            /\ Len(last.source) = chunk_size * w
            /\ \A r \in 0..(chunk_size - 1) : \A c \in 0..(w - 1) :
                  /\ last.source[r * w + c + 1]
                        = RowByteIndex(last.buffer, r, o + c)
                  /\ last.bytes[r * w + c + 1]
                        = file[RowByteIndex(last.buffer, r, o + c)]

(* Two byte ranges [a, a + m) and [b, b + n) share a byte. *)
Overlap(a, m, b, n) == a < b + n /\ b < a + m

C3_Witness ==
    /\ Decoded /\ last.stored /\ LastScaler.kind = "DaqMxScaler"
    /\ chunk_size = MaxRows
    /\ TypeSize(LastScaler.data_type) = 2
    /\ \E n \in 1..Len(AllScalerPairs) :
          LET other == ScalerAt(data_objects, AllScalerPairs[n])
          IN  /\ AllScalerPairs[n] # <<last.object, last.scaler>>
              /\ other.raw_buffer_index = LastScaler.raw_buffer_index
              /\ other.raw_byte_offset # LastScaler.raw_byte_offset
              /\ Overlap(other.raw_byte_offset, TypeSize(other.data_type),
                         LastScaler.raw_byte_offset, 2)

(* C4: the raw buffers are read in ascending index order, buffer b as     *)
(* raw_data_widths[b] * chunk_size bytes, so that a returned chunk has    *)
(* advanced the stream by chunk_size * sum(raw_data_widths); a scaler     *)
(* with raw_buffer_index b is decoded from bytes read for buffer b only.  *)
C4_BufferOrder ==
    /\ \A n \in 1..Len(reads) :
          /\ reads[n].buffer = n - 1
          /\ reads[n].count = raw_data_widths[n] * chunk_size
          /\ reads[n].start = BufferStart(n - 1)
    /\ pc \in {"loop", "scalers", "returned"} => pos = BufferStart(Len(reads))
    /\ pc = "returned" =>
          /\ Len(reads) = Len(raw_data_widths)
          /\ pos = chunk_size * SumSeq(raw_data_widths)
    /\ Decoded =>
          /\ last.buffer = LastScaler.raw_buffer_index
          /\ \A n \in 1..Len(last.source) :
                /\ last.source[n] > BufferStart(LastScaler.raw_buffer_index)
                /\ last.source[n] <= BufferStart(LastScaler.raw_buffer_index + 1)

C4_Witness ==
    /\ pc = "returned"
    /\ Len(reads) = 2
    /\ reads[1].count # reads[2].count
    /\ chunk_size = MaxRows
    /\ Decoded /\ last.stored /\ last.buffer = 1
    /\ \E n \in 1..Len(AllScalerPairs) :
          ScalerAt(data_objects, AllScalerPairs[n]).raw_buffer_index = 0

(* The integer that w bytes stand for: the first byte least significant   *)
(* (little-endian) or most significant (big-endian), two's complement     *)
(* when signed.                                                           *)
RECURSIVE LittleEndianSum(_)
LittleEndianSum(bytes) ==
    IF bytes = <<>> THEN 0 ELSE Head(bytes) + 256 * LittleEndianSum(Tail(bytes))

RECURSIVE BigEndianSum(_, _)
BigEndianSum(bytes, acc) ==
    IF bytes = <<>> THEN acc
    ELSE BigEndianSum(Tail(bytes), 256 * acc + Head(bytes))

AssembledValue(bytes, e, signed) ==
    LET u == IF e = "<" THEN LittleEndianSum(bytes) ELSE BigEndianSum(bytes, 0)
    IN  IF signed /\ u >= Pow2(8 * Len(bytes) - 1)
        THEN u - Pow2(8 * Len(bytes)) ELSE u

(* C8: sample i of the column of a scaler of type width w is the integer  *)
(* assembled from the w bytes selected from row i in the segment's byte   *)
(* order, signed or unsigned as the data type says; for a format changing *)
(* scaler this is the value stored in the result.                         *)
C8_ByteOrder ==
    (Decoded /\ last.stored) =>
        LET o == byte_offset(LastScaler)
            w == TypeSize(LastScaler.data_type)
            path == data_objects[last.object].path
        IN  /\ Len(last.typed) = chunk_size
            /\ \A i \in 1..chunk_size :
                  last.typed[i] =
                      AssembledValue(
                          [c \in 1..w |->
                              file[RowByteIndex(last.buffer, i - 1, o + c - 1)]],
                          endianness, TypeSigned(LastScaler.data_type))
            /\ LastScaler.kind = "DaqMxScaler" =>
                  scaler_data[path][LastScaler.scale_id] = last.typed

(* Little-endian rows starting 0x34,0x12 and 0x78,0x56 with a u16 scaler  *)
(* at offset 0 give [0x1234, 0x5678].                                     *)
C8_Witness ==
    /\ Decoded /\ last.stored
    /\ endianness = "<"
    /\ LastScaler.kind = "DaqMxScaler"
    /\ LastScaler.data_type = "Uint16"
    /\ LastScaler.raw_byte_offset = 0
    /\ last.bytes = <<\h34, \h12, \h78, \h56>>
    /\ scaler_data[data_objects[last.object].path][LastScaler.scale_id]
          = <<\h1234, \h5678>>

(* A big-endian signed scaler yields a negative sample. *)
C8_WitnessSigned ==
    /\ Decoded /\ last.stored
    /\ endianness = ">"
    /\ LastScaler.data_type = "Int16"
    /\ \E i \in 1..Len(last.typed) : last.typed[i] < 0

(* C10 as claimed: a returned result holds, for every channel object and  *)
(* every scaler of its metadata, an entry result[path][scale_id] of as    *)
(* many values as the channel's own metadata chunk_size.                  *)
C10_EveryScalerHasEntry ==
    pc = "returned" =>
        \A n \in 1..Len(AllScalerPairs) :
            LET o == data_objects[AllScalerPairs[n][1]]
                scaler == ScalerAt(data_objects, AllScalerPairs[n])
            IN  /\ o.path \in DOMAIN scaler_data
                /\ scaler.scale_id \in DOMAIN scaler_data[o.path]
                /\ Len(scaler_data[o.path][scaler.scale_id])
                      = o.daqmx_metadata.chunk_size

(* C10 amended: a returned result holds an entry result[path][scale_id]   *)
(* for every scaler whose raw_buffer_index is an index of the first       *)
(* object's raw_data_widths, and every entry has as many values as the    *)
(* first object's number_values; a channel none of whose scalers has such *)
(* an index has no entry at all.                                          *)
C10_IndexedScalersHaveEntry ==
    pc = "returned" =>
        /\ \A n \in 1..Len(AllScalerPairs) :
              LET o == data_objects[AllScalerPairs[n][1]]
                  scaler == ScalerAt(data_objects, AllScalerPairs[n])
              IN  scaler.raw_buffer_index
                      < Len(data_objects[1].daqmx_metadata.raw_data_widths)
                  => /\ o.path \in DOMAIN scaler_data
                     /\ scaler.scale_id \in DOMAIN scaler_data[o.path]
                     /\ Len(scaler_data[o.path][scaler.scale_id])
                           = data_objects[1].number_values
        /\ \A path \in DOMAIN scaler_data :
              \A id \in DOMAIN scaler_data[path] :
                  /\ Len(scaler_data[path][id]) = data_objects[1].number_values
                  /\ \E n \in 1..Len(AllScalerPairs) :
                        LET scaler == ScalerAt(data_objects, AllScalerPairs[n])
                        IN  /\ data_objects[AllScalerPairs[n][1]].path = path
                            /\ scaler.scale_id = id
                            /\ scaler.raw_buffer_index
                                  < Len(data_objects[1].daqmx_metadata.raw_data_widths)

C10_Witness ==
    /\ pc = "returned"
    /\ chunk_size = MaxRows
    /\ scaler_data # EmptyMap
    /\ Len(data_objects) = 2
    /\ data_objects[2].number_values # data_objects[1].number_values
    /\ \E n \in 1..Len(AllScalerPairs) :
          ScalerAt(data_objects, AllScalerPairs[n]).raw_buffer_index
              >= Len(raw_data_widths)

-----------------------------------------------------------------------------
(* DaqmxSegmentObject.read_raw_data_index and DaqMxMetadata.__init__ *)

(* nptdms.types.tds_data_types, the codes used here (the code of DAQmx    *)
(* raw data, 0xFFFFFFFF, is beyond the model checker's integers: the      *)
(* metadata's own type of line 156 is written as the type itself).        *)
tds_data_types == (1 :> "Int8") @@ (2 :> "Int16") @@ (3 :> "Int32")

(* types.Uint8/Uint32/Uint64.read: n bytes at position p in byte order e. *)
CanRead(bytes, p, n) == p + n <= Len(bytes)

ReadUint(bytes, p, n, e) ==
    LET raw == SubSeq(bytes, p + 1, p + n)
    IN  IF e = ">" THEN BigEndianValue(raw) ELSE BigEndianValue(Reverse(raw))

(* The widths of the five reads of DaqMxScaler.__init__ and of            *)
(* DigitalLineScaler.__init__: data type code, raw_buffer_index, raw byte *)
(* or bit offset, sample_format_bitmap, scale_id.                         *)
FieldSizes_AllUint32(class) == <<4, 4, 4, 4, 4>>

FieldSizes(class) ==
    IF class = "DaqMxScaler" THEN <<4, 4, 4, 4, 4>> ELSE <<4, 4, 4, 1, 4>>

(* Position of field k of a record that starts at p. *)
FieldStart(class, p, k) == p + SumSeq(SubSeq(FieldSizes(class), 1, k - 1))

ReadField(bytes, class, p, k, e) ==
    ReadUint(bytes, FieldStart(class, p, k), FieldSizes(class)[k], e)

(* scaler_class(f, endianness) on a record that is all there *)
ParsedScaler(bytes, class, p, e) ==
    IF class = "DaqMxScaler"
    THEN [kind |-> class,
          data_type |-> DAQMX_TYPES[ReadField(bytes, class, p, 1, e)],
          raw_buffer_index |-> ReadField(bytes, class, p, 2, e),
          raw_byte_offset |-> ReadField(bytes, class, p, 3, e),
          sample_format_bitmap |-> ReadField(bytes, class, p, 4, e),
          scale_id |-> ReadField(bytes, class, p, 5, e)]
    ELSE [kind |-> class,
          data_type |-> DAQMX_TYPES[ReadField(bytes, class, p, 1, e)],
          raw_buffer_index |-> ReadField(bytes, class, p, 2, e),
          raw_bit_offset |-> ReadField(bytes, class, p, 3, e),
          sample_format_bitmap |-> ReadField(bytes, class, p, 4, e),
          scale_id |-> ReadField(bytes, class, p, 5, e)]

(* DaqmxSegmentObject.__init__ (and BaseSegmentObject.__init__) *)
NewSegmentObject ==
    [data_type |-> "None", daqmx_metadata |-> NoMetadata,
     number_values |-> 0, data_size |-> 0]

(* Lines 98-101 *)
CheckHeader ==
    /\ UNCHANGED <<decodeVars, chunkVars, bitVars>>
    /\ ppc = "start"
    /\ IF hdr \notin {FORMAT_CHANGING_SCALER, DIGITAL_LINE_SCALER}
       THEN ppc' = "raised" /\ perr' = "ValueError"
       ELSE ppc' = "data_type" /\ perr' = perr
    /\ UNCHANGED <<hdr, f, fpos, fend, obj, old, md, todo, records>>

(* Lines 109-113 *)
ReadDataType ==
    /\ UNCHANGED <<decodeVars, chunkVars, bitVars>>
    /\ ppc = "data_type"
    /\ IF ~CanRead(f, fpos, 4)
       THEN /\ ppc' = "raised" /\ perr' = "UnexpectedEndOfData"
            /\ fpos' = Len(f) /\ obj' = obj
       ELSE LET data_type_val == ReadUint(f, fpos, 4, fend)
            IN  /\ fpos' = fpos + 4
                /\ IF data_type_val \notin DOMAIN tds_data_types
                   THEN ppc' = "raised" /\ perr' = "KeyError" /\ obj' = obj
                   ELSE /\ ppc' = "dimension" /\ perr' = perr
                        /\ obj' = [obj EXCEPT
                                     !.data_type = tds_data_types[data_type_val]]
    /\ UNCHANGED <<hdr, f, fend, old, md, todo, records>>

(* Lines 155-160 *)
ReadDimension ==
    /\ UNCHANGED <<decodeVars, chunkVars, bitVars>>
    /\ ppc = "dimension"
    /\ IF ~CanRead(f, fpos, 4)
       THEN /\ ppc' = "raised" /\ perr' = "UnexpectedEndOfData"
            /\ fpos' = Len(f) /\ md' = md
       ELSE LET dimension == ReadUint(f, fpos, 4, fend)
            IN  /\ fpos' = fpos + 4
                /\ md' = [scaler_type |-> hdr, data_type |-> "DaqMxRawData",
                          dimension |-> dimension, chunk_size |-> 0,
                          scalers |-> <<>>, raw_data_widths |-> <<>>]
                /\ IF dimension # 1
                   THEN ppc' = "raised" /\ perr' = "ValueError"
                   ELSE ppc' = "chunk_size" /\ perr' = perr
    /\ UNCHANGED <<hdr, f, fend, obj, old, todo, records>>

(* Line 161 *)
ReadChunkSize ==
    /\ UNCHANGED <<decodeVars, chunkVars, bitVars>>
    /\ ppc = "chunk_size"
    /\ IF ~CanRead(f, fpos, 8)
       THEN /\ ppc' = "raised" /\ perr' = "UnexpectedEndOfData"
            /\ fpos' = Len(f) /\ md' = md
       ELSE /\ fpos' = fpos + 8
            /\ md' = [md EXCEPT !.chunk_size = ReadUint(f, fpos, 8, fend)]
            /\ ppc' = "scaler_vector_length" /\ perr' = perr
    /\ UNCHANGED <<hdr, f, fend, obj, old, todo, records>>

(* Lines 164-165 *)
ReadScalerVectorLength ==
    /\ UNCHANGED <<decodeVars, chunkVars, bitVars>>
    /\ ppc = "scaler_vector_length"
    /\ IF ~CanRead(f, fpos, 4)
       THEN /\ ppc' = "raised" /\ perr' = "UnexpectedEndOfData"
            /\ fpos' = Len(f) /\ todo' = todo
       ELSE /\ fpos' = fpos + 4
            /\ todo' = ReadUint(f, fpos, 4, fend)
            /\ ppc' = "scalers" /\ perr' = perr
    /\ UNCHANGED <<hdr, f, fend, obj, old, md, records>>

(* Lines 166-168: one scaler_class(f, endianness), lines 203-211 or       *)
(* 240-248: the type code is looked up as soon as it is read.             *)
ReadScaler ==
    /\ UNCHANGED <<decodeVars, chunkVars, bitVars>>
    /\ ppc = "scalers"
    /\ todo > 0
    /\ LET scaler_class == _scaler_classes[md.scaler_type]
           size == SumSeq(FieldSizes(scaler_class))
       IN  IF ~CanRead(f, fpos, 4)
           THEN /\ ppc' = "raised" /\ perr' = "UnexpectedEndOfData"
                /\ fpos' = Len(f)
                /\ UNCHANGED <<md, todo, records>>
           ELSE IF ReadUint(f, fpos, 4, fend) \notin DOMAIN DAQMX_TYPES
           THEN /\ ppc' = "raised" /\ perr' = "KeyError"
                /\ fpos' = fpos + 4
                /\ UNCHANGED <<md, todo, records>>
           ELSE IF ~CanRead(f, fpos, size)
           THEN /\ ppc' = "raised" /\ perr' = "UnexpectedEndOfData"
                /\ fpos' = Len(f)
                /\ UNCHANGED <<md, todo, records>>
           ELSE /\ md' = [md EXCEPT !.scalers =
                             Append(@, ParsedScaler(f, scaler_class, fpos, fend))]
                /\ records' = Append(records,
                                 [class |-> scaler_class, start |-> fpos,
                                  stop |-> fpos + size])
                /\ fpos' = fpos + size
                /\ todo' = todo - 1
                /\ ppc' = ppc /\ perr' = perr
    /\ UNCHANGED <<hdr, f, fend, obj, old>>

(* Lines 175-176 *)
ReadRawDataWidthsLength ==
    /\ UNCHANGED <<decodeVars, chunkVars, bitVars>>
    /\ ppc = "scalers"
    /\ todo = 0
    /\ IF ~CanRead(f, fpos, 4)
       THEN /\ ppc' = "raised" /\ perr' = "UnexpectedEndOfData"
            /\ fpos' = Len(f) /\ todo' = todo
       ELSE /\ fpos' = fpos + 4
            /\ todo' = ReadUint(f, fpos, 4, fend)
            /\ ppc' = "widths" /\ perr' = perr
    /\ UNCHANGED <<hdr, f, fend, obj, old, md, records>>

(* Lines 177-178 *)
ReadRawDataWidth ==
    /\ UNCHANGED <<decodeVars, chunkVars, bitVars>>
    /\ ppc = "widths"
    /\ todo > 0
    /\ IF ~CanRead(f, fpos, 4)
       THEN /\ ppc' = "raised" /\ perr' = "UnexpectedEndOfData"
            /\ fpos' = Len(f) /\ UNCHANGED <<md, todo>>
       ELSE /\ fpos' = fpos + 4
            /\ md' = [md EXCEPT !.raw_data_widths =
                         Append(@, ReadUint(f, fpos, 4, fend))]
            /\ todo' = todo - 1
            /\ ppc' = ppc /\ perr' = perr
    /\ UNCHANGED <<hdr, f, fend, obj, old, records>>

(* Lines 115-122: the metadata is complete and is put on the object. *)
AssignMetadata ==
    /\ UNCHANGED <<decodeVars, chunkVars, bitVars>>
    /\ ppc = "widths"
    /\ todo = 0
    /\ obj' = [data_type |-> md.data_type,
               data_size |-> md.chunk_size * SumSeq(md.raw_data_widths),
               number_values |-> md.chunk_size,
               daqmx_metadata |-> md]
    /\ ppc' = "returned"
    /\ UNCHANGED <<hdr, f, fpos, fend, old, md, todo, perr, records>>

ParseNext ==
    \/ CheckHeader
    \/ ReadDataType
    \/ ReadDimension
    \/ ReadChunkSize
    \/ ReadScalerVectorLength
    \/ ReadScaler
    \/ ReadRawDataWidthsLength
    \/ ReadRawDataWidth
    \/ AssignMetadata

-----------------------------------------------------------------------------
(* Inputs of read_raw_data_index: metadata streams as a writer lays them  *)
(* out (section "Binary layout"), whole or cut short.                     *)

RECURSIVE LittleEndianBytes(_, _)
LittleEndianBytes(v, n) ==
    IF n = 0 THEN <<>> ELSE <<v % 256>> \o LittleEndianBytes(v \div 256, n - 1)

EncodeUint(v, n, e) ==
    IF e = "<" THEN LittleEndianBytes(v, n) ELSE Reverse(LittleEndianBytes(v, n))

(* One scaler record <<type code, buffer, offset, bitmap, scale id>> in   *)
(* the layout of the given scaler class.                                  *)
EncodeScaler(rec, class, e) ==
    EncodeUint(rec[1], 4, e) \o EncodeUint(rec[2], 4, e)
        \o EncodeUint(rec[3], 4, e)
        \o EncodeUint(rec[4], IF class = "DaqMxScaler" THEN 4 ELSE 1, e)
        \o EncodeUint(rec[5], 4, e)

RECURSIVE EncodeScalers(_, _, _)
EncodeScalers(recs, class, e) ==
    IF recs = <<>> THEN <<>>
    ELSE EncodeScaler(Head(recs), class, e) \o EncodeScalers(Tail(recs), class, e)

RECURSIVE EncodeWidths(_, _)
EncodeWidths(widths, e) ==
    IF widths = <<>> THEN <<>>
    ELSE EncodeUint(Head(widths), 4, e) \o EncodeWidths(Tail(widths), e)

EncodeIndex(outer, dimension, rows, recs, class, widths, e) ==
    EncodeUint(outer, 4, e) \o EncodeUint(dimension, 4, e)
        \o EncodeUint(rows, 8, e) \o EncodeUint(Len(recs), 4, e)
        \o EncodeScalers(recs, class, e)
        \o EncodeUint(Len(widths), 4, e) \o EncodeWidths(widths, e)

(* Scaler records: a u16 scaler, a u8 scaler on the second buffer, and a  *)
(* record with a type code outside DAQMX_TYPES.                           *)
WrittenScalers == {<<2, 0, 0, 0, 7>>, <<0, 1, 10, 1, 9>>, <<6, 0, 0, 0, 7>>}

WrittenScalerLists == UNION {[1..n -> WrittenScalers] : n \in 0..MaxParseScalers}

(* Where a stream is cut: not at all, or after every fifth byte from 2. *)
Truncations(bytes) ==
    {Len(bytes)} \cup {n \in 0..(Len(bytes) - 1) : n % 5 = 2}

ParseStart(header, bytes, e) ==
    /\ hdr = header /\ f = bytes /\ fpos = 0 /\ fend = e
    /\ obj = NewSegmentObject /\ old = NewSegmentObject
    /\ md = NoMetadata /\ todo = 0 /\ ppc = "start" /\ perr = "None"
    /\ records = <<>>

ParseInit ==
    \E header \in {FORMAT_CHANGING_SCALER, DIGITAL_LINE_SCALER, \h1369},
       e \in {"<", ">"},
       class \in {"DaqMxScaler", "DigitalLineScaler"},
       outer \in {3, \h7F}, dimension \in {1, 2},
       recs \in WrittenScalerLists,
       widths \in {<<>>, <<3>>, <<2, 3>>} :
    LET whole == EncodeIndex(outer, dimension, 3, recs, class, widths, e) IN
    \E cut \in Truncations(whole) :
        /\ ParseStart(header, SubSeq(whole, 1, cut), e)
        /\ DecodeIdle /\ ChunkIdle /\ BitsIdle

SpecParse == ParseInit /\ [][ParseNext]_vars

(* C6: the header alone picks the scaler record layout: 0x1269 makes      *)
(* every scaler record a 20-byte DaqMxScaler record whose bitmap is the   *)
(* 4 bytes at 12..15 and whose scale id is the 4 bytes at 16..19; 0x126A  *)
(* makes every record a 17-byte DigitalLineScaler record whose bitmap is  *)
(* the byte at 12 and whose scale id is the 4 bytes at 13..16; any other  *)
(* header fails with nothing read from the stream.                        *)
C6_HeaderPicksLayout ==
    /\ hdr = FORMAT_CHANGING_SCALER =>
          \A n \in 1..Len(records) :
              /\ records[n].class = "DaqMxScaler"
              /\ records[n].stop - records[n].start = 20
              /\ md.scalers[n].kind = "DaqMxScaler"
              /\ md.scalers[n].sample_format_bitmap
                    = ReadUint(f, records[n].start + 12, 4, fend)
              /\ md.scalers[n].scale_id
                    = ReadUint(f, records[n].start + 16, 4, fend)
    /\ hdr = DIGITAL_LINE_SCALER =>
          \A n \in 1..Len(records) :
              /\ records[n].class = "DigitalLineScaler"
              /\ records[n].stop - records[n].start = 17
              /\ md.scalers[n].kind = "DigitalLineScaler"
              /\ md.scalers[n].sample_format_bitmap
                    = ReadUint(f, records[n].start + 12, 1, fend)
              /\ md.scalers[n].scale_id
                    = ReadUint(f, records[n].start + 13, 4, fend)
    /\ \A n \in 1..Len(records) :
          records[n].start = IF n = 1 THEN 20 ELSE records[n - 1].stop
    /\ hdr \notin {FORMAT_CHANGING_SCALER, DIGITAL_LINE_SCALER} =>
          /\ ppc \in {"start", "raised"}
          /\ ppc = "raised" => perr = "ValueError"
          /\ fpos = 0
          /\ records = <<>>
          /\ obj = old

(* Two digital line records parsed from a stream written with them. *)
C6_Witness ==
    /\ hdr = DIGITAL_LINE_SCALER
    /\ ppc = "returned"
    /\ Len(records) = 2
    /\ records[2].stop = 20 + 17 + 17
    /\ obj.daqmx_metadata.scalers[2].scale_id = 9
    /\ obj.daqmx_metadata.raw_data_widths = <<2, 3>>

C6_WitnessFormatChanging ==
    /\ hdr = FORMAT_CHANGING_SCALER
    /\ ppc = "returned"
    /\ Len(records) = 2
    /\ obj.daqmx_metadata.scalers[2].scale_id = 9
    /\ obj.daqmx_metadata.raw_data_widths = <<2, 3>>

C6_WitnessRejected ==
    /\ hdr \notin {FORMAT_CHANGING_SCALER, DIGITAL_LINE_SCALER}
    /\ ppc = "raised"
    /\ Len(f) > 20

(* C9: when read_raw_data_index fails, the channel object's data_type,    *)
(* daqmx_metadata, number_values and data_size are what they were before  *)
(* the call.                                                              *)
C9_FailureLeavesObject ==
    ppc = "raised" =>
        /\ obj.data_type = old.data_type
        /\ obj.daqmx_metadata = old.daqmx_metadata
        /\ obj.number_values = old.number_values
        /\ obj.data_size = old.data_size

-----------------------------------------------------------------------------
(* DaqmxSegment._get_chunk_size *)

(* DaqmxSegmentObject.total_raw_data_width *)
total_raw_data_width(o) == SumSeq(o.daqmx_metadata.raw_data_widths)

(* Mutant: a product of 0 is taken as valid too. *)
RECURSIVE FirstChunkSize_ZeroIsValid(_)
FirstChunkSize_ZeroIsValid(objects) ==
    IF objects = <<>> THEN 0
    ELSE IF Head(objects).has_data
            /\ Head(objects).number_values * total_raw_data_width(Head(objects)) >= 0
         THEN Head(objects).number_values * total_raw_data_width(Head(objects))
         ELSE FirstChunkSize_ZeroIsValid(Tail(objects))

(* next(...) over self.ordered_objects, 0 on StopIteration *)
RECURSIVE FirstChunkSize(_)
FirstChunkSize(objects) ==
    IF objects = <<>> THEN 0
    ELSE IF Head(objects).has_data
            /\ Head(objects).number_values * total_raw_data_width(Head(objects)) > 0
         THEN Head(objects).number_values * total_raw_data_width(Head(objects))
         ELSE FirstChunkSize(Tail(objects))

(* The channel objects of a segment: one without data and without         *)
(* metadata, one without data in this segment that keeps the values of    *)
(* an earlier segment, and objects with data whose number_values *        *)
(* total_raw_data_width is 0, 0, 512 and 256.                             *)
SegmentObjects ==
    {[has_data |-> FALSE, number_values |-> 0, daqmx_metadata |-> NoMetadata],
     [has_data |-> FALSE, number_values |-> 256,
      daqmx_metadata |-> [raw_data_widths |-> <<1, 1>>]],
     [has_data |-> TRUE, number_values |-> 0,
      daqmx_metadata |-> [raw_data_widths |-> <<1, 1>>]],
     [has_data |-> TRUE, number_values |-> 256,
      daqmx_metadata |-> [raw_data_widths |-> <<>>]],
     [has_data |-> TRUE, number_values |-> 256,
      daqmx_metadata |-> [raw_data_widths |-> <<1, 1>>]],
     [has_data |-> TRUE, number_values |-> 256,
      daqmx_metadata |-> [raw_data_widths |-> <<1>>]]}

GetChunkSize ==
    /\ UNCHANGED <<decodeVars, parseVars, bitVars>>
    /\ cpc = "start"
    /\ chunk_result' = FirstChunkSize(ordered_objects)
    /\ cpc' = "returned"
    /\ UNCHANGED ordered_objects

ChunkInit ==
    \E n \in 0..MaxChunkObjects : \E objects \in [1..n -> SegmentObjects] :
        /\ ordered_objects = objects /\ cpc = "start" /\ chunk_result = 0
        /\ DecodeIdle /\ ParseIdle /\ BitsIdle

ChunkNext == GetChunkSize

SpecChunk == ChunkInit /\ [][ChunkNext]_vars

(* number_values * total_raw_data_width of a channel object, 0 for one    *)
(* that has no metadata.                                                  *)
Product(o) ==
    IF o.daqmx_metadata = NoMetadata THEN 0
    ELSE o.number_values * total_raw_data_width(o)

Least(S) == CHOOSE n \in S : \A m \in S : n <= m

(* C7 as claimed: the result is the product of the first channel object   *)
(* whose product is nonzero, and 0 exactly when there is none.            *)
C7_FirstNonzeroProduct ==
    cpc = "returned" =>
        LET nonzero == {n \in 1..Len(ordered_objects) :
                            Product(ordered_objects[n]) # 0}
        IN  /\ nonzero # {} =>
                  chunk_result = Product(ordered_objects[Least(nonzero)])
            /\ chunk_result = 0 <=> nonzero = {}

(* C7 amended: the result is the product of the first channel object      *)
(* that has data (has_data) and a nonzero product, and 0 exactly when no  *)
(* channel object has both.                                               *)
C7_FirstNonzeroProductWithData ==
    cpc = "returned" =>
        LET valid == {n \in 1..Len(ordered_objects) :
                          /\ ordered_objects[n].has_data
                          /\ Product(ordered_objects[n]) # 0}
        IN  /\ valid # {} =>
                  chunk_result = Product(ordered_objects[Least(valid)])
            /\ chunk_result = 0 <=> valid = {}

(* Products [0, 0, 512, 256] resolve to 512. *)
C7_Witness ==
    /\ cpc = "returned"
    /\ Len(ordered_objects) = 4
    /\ \A n \in 1..4 : ordered_objects[n].has_data
    /\ [n \in 1..4 |-> Product(ordered_objects[n])] = <<0, 0, 512, 256>>
    /\ chunk_result = 512

-----------------------------------------------------------------------------
(* DigitalLineScaler.byte_offset and postprocess_data on their own. *)

CallByteOffset ==
    /\ UNCHANGED <<decodeVars, parseVars, chunkVars>>
    /\ bpc = "start"
    /\ bit_byte_offset' = byte_offset(bit_scaler)
    /\ bpc' = "offset"
    /\ UNCHANGED <<bit_scaler, bit_value, bit_result>>

CallPostprocess ==
    /\ UNCHANGED <<decodeVars, parseVars, chunkVars>>
    /\ bpc = "offset"
    /\ bit_result' = postprocess_data(bit_scaler, bit_value)
    /\ bpc' = "done"
    /\ UNCHANGED <<bit_scaler, bit_value, bit_byte_offset>>

BitsInit ==
    \E k \in 0..MaxBitOffset, v \in 0..255 :
        /\ bit_scaler = DigitalLineScaler(<<0, k>>, 0, 9)
        /\ bit_value = <<v, 255 - v>>
        /\ bpc = "start" /\ bit_byte_offset = 0 /\ bit_result = <<>>
        /\ DecodeIdle /\ ParseIdle /\ ChunkIdle

BitsNext ==
    \/ CallByteOffset
    \/ CallPostprocess

SpecBits == BitsInit /\ [][BitsNext]_vars

(* C5: for a digital line scaler with raw_bit_offset k, byte_offset() is  *)
(* k div 8 and postprocess_data maps every raw value v of 0..255 to       *)
(* (v >> (k mod 8)) & 1, which is 0 or 1.                                 *)
C5_BitExtraction ==
    LET k == bit_scaler.raw_bit_offset IN
    /\ bpc \in {"offset", "done"} => bit_byte_offset = k \div 8
    /\ bpc = "done" =>
          /\ Len(bit_result) = Len(bit_value)
          /\ \A n \in 1..Len(bit_value) :
                /\ bit_result[n] = (bit_value[n] \div Pow2(k % 8)) % 2
                /\ bit_result[n] \in {0, 1}

(* Bit offset 32: byte 4, bit 0; 0x05 gives 1. *)
C5_Witness ==
    /\ bpc = "done"
    /\ bit_scaler.raw_bit_offset = 32
    /\ bit_byte_offset = 4
    /\ bit_value[1] = 5
    /\ bit_result[1] = 1

====
